---- MODULE Spec2Model ----
(***************************************************************************)
(* The SSE streaming service of backend/app: the four stream generators    *)
(* (counter, text generation, progress, POST echo), the requests that      *)
(* start them, the client's disconnect, and the events each generator      *)
(* yields.  A generator advances between its suspension points (the        *)
(* disconnect check, the yield, the delay).                                *)
(*                                                                         *)
(* Text is a sequence of atoms: an atom is one whitespace character (SP,   *)
(* NL) or a run of non-whitespace characters.  A word, as str.split()      *)
(* produces it, is the sequence of the non-whitespace atoms of one maximal *)
(* run.  Wall-clock values (timestamps, task_id) are not part of the       *)
(* modelled payloads.                                                      *)
(***************************************************************************)
EXTENDS Integers, Sequences, FiniteSets, TLC

(* ------------------------------ bounds ------------------------------- *)

\* longest client-supplied prompt, in atoms
MaxPromptLen == 3

\* longest client-supplied POST message, in atoms
MaxMessageLen == 3

(* ------------------------------- text -------------------------------- *)

SP == " "

NL == "\n"

Whitespace == {SP, NL}

\* F(v), with v evaluated once
Bind(v, F(_)) == CHOOSE y \in {F(x) : x \in {v}} : TRUE

\* where the words of s start, and where the word starting at k ends
WordStarts(s) ==
  {k \in 1..Len(s) : s[k] \notin Whitespace /\ (k = 1 \/ s[k - 1] \in Whitespace)}

WordEnd(s, k) ==
  CHOOSE e \in k..Len(s) :
    /\ \A m \in k..e : s[m] \notin Whitespace
    /\ e = Len(s) \/ s[e + 1] \in Whitespace

\* str.split() with no separator: the maximal runs of non-whitespace, in order
split(s) ==
  Bind(s, LAMBDA t :
    Bind(WordStarts(t), LAMBDA starts :
      [j \in 1..Cardinality(starts) |->
         Bind(CHOOSE k \in starts : Cardinality({m \in starts : m <= k}) = j,
              LAMBDA k : SubSeq(t, k, WordEnd(t, k)))]))

\* str(n) of a non-negative integer: its decimal digits
Digit(d) ==
  CASE d = 0 -> "0" [] d = 1 -> "1" [] d = 2 -> "2" [] d = 3 -> "3"
    [] d = 4 -> "4" [] d = 5 -> "5" [] d = 6 -> "6" [] d = 7 -> "7"
    [] d = 8 -> "8" [] d = 9 -> "9"

RECURSIVE str(_)
str(n) == IF n < 10 THEN <<Digit(n)>> ELSE Append(str(n \div 10), Digit(n % 10))

(* ------------------- IEEE-754 double arithmetic ---------------------- *)
(* A non-negative double is [bits, frac]: the significand's bits, most    *)
(* significant first (the first is 1; <<>> is zero), of which the last    *)
(* frac are fractional.                                                   *)

\* significand width of a double
Precision == 53

RECURSIVE Pow2(_)
Pow2(k) ==
  IF k = 0 THEN 1
  ELSE Bind(Pow2(k \div 2), LAMBDA h : IF k % 2 = 0 THEN h * h ELSE 2 * h * h)

\* 2^k mod b, for b below 2^15
RECURSIVE Pow2Mod(_, _)
Pow2Mod(k, b) ==
  IF k = 0 THEN 1 % b
  ELSE Bind(Pow2Mod(k \div 2, b),
            LAMBDA h : IF k % 2 = 0 THEN (h * h) % b
                                    ELSE (2 * ((h * h) % b)) % b)

BitLen(n) == Cardinality({k \in 0..30 : Pow2(k) <= n})

IntBits(n) ==
  Bind(BitLen(n), LAMBDA w : [j \in 1..w |-> (n \div Pow2(w - j)) % 2])

RECURSIVE BitsInt(_)
BitsInt(b) ==
  IF b = <<>> THEN 0
  ELSE IF Len(b) = 1 THEN b[1]
  ELSE LET h == Len(b) \div 2 IN
       BitsInt(SubSeq(b, 1, h)) * Pow2(Len(b) - h)
         + BitsInt(SubSeq(b, h + 1, Len(b)))

\* b + 1; one bit longer when b is all ones
IncBits(b) ==
  LET zeros == {j \in 1..Len(b) : b[j] = 0} IN
  IF zeros = {} THEN [j \in 1..(Len(b) + 1) |-> IF j = 1 THEN 1 ELSE 0]
  ELSE Bind(CHOOSE j \in zeros : \A m \in zeros : m <= j,
            LAMBDA z : [j \in 1..Len(b) |->
                          IF j < z THEN b[j] ELSE IF j = z THEN 1 ELSE 0])

\* round-half-to-even of the significand, given the first dropped bit
\* and whether any later dropped bit is set
RoundEven(bits, frac, guard, sticky) ==
  IF guard = 1 /\ (sticky \/ bits[Len(bits)] = 1)
    THEN Bind(IncBits(bits), LAMBDA up :
           IF Len(up) > Len(bits)
             THEN [bits |-> SubSeq(up, 1, Len(bits)), frac |-> frac - 1]
             ELSE [bits |-> up, frac |-> frac])
    ELSE [bits |-> bits, frac |-> frac]

\* the k-th fractional bit of r / b (r < b), and what is left after it
QBit(r, b, k) == (2 * ((r * Pow2Mod(k - 1, b)) % b)) \div b

QRem(r, b, k) == (r * Pow2Mod(k, b)) % b

\* the significand of a / b before rounding, as [bits, frac]
Quotient(a, b) ==
  IF a >= b
    THEN Bind(IntBits(a \div b), LAMBDA q :
           [bits |-> q \o [j \in 1..(Precision - Len(q)) |-> QBit(a % b, b, j)],
            frac |-> Precision - Len(q)])
    ELSE Bind(CHOOSE k \in 1..16 :
                QBit(a, b, k) = 1 /\ \A m \in 1..(k - 1) : QBit(a, b, m) = 0,
              LAMBDA first :
           [bits |-> [j \in 1..Precision |-> QBit(a, b, first + j - 1)],
            frac |-> first + Precision - 1])

\* a / b of two ints (true division), correctly rounded; b below 2^15
truediv(a, b) ==
  IF a = 0 THEN [bits |-> <<>>, frac |-> 0]
  ELSE Bind(Quotient(a, b), LAMBDA x :
         RoundEven(x.bits, x.frac, QBit(a % b, b, x.frac + 1),
                   QRem(a % b, b, x.frac + 1) # 0))

\* the bit of weight 2^k of a significand, and its k-th 14-bit limb
BitAt(bits, k) == IF k < Len(bits) THEN bits[Len(bits) - k] ELSE 0

Limb(bits, k) ==
  Bind([j \in 1..14 |-> BitAt(bits, 14 * k + 14 - j)], LAMBDA l : BitsInt(l))

LimbBits(v) == [j \in 1..14 |-> (v \div Pow2(14 - j)) % 2]

StripZeros(all) ==
  Bind(CHOOSE j \in 1..Len(all) :
         all[j] = 1 /\ \A m \in 1..(j - 1) : all[m] = 0,
       LAMBDA lead : SubSeq(all, lead, Len(all)))

\* bits * c for a significand of at most 56 bits and 0 < c < 2^15
MulBits(bits, c) ==
  IF bits = <<>> THEN <<>>
  ELSE Bind(Limb(bits, 0) * c, LAMBDA t0 :
       Bind(Limb(bits, 1) * c + t0 \div 16384, LAMBDA t1 :
       Bind(Limb(bits, 2) * c + t1 \div 16384, LAMBDA t2 :
       Bind(Limb(bits, 3) * c + t2 \div 16384, LAMBDA t3 :
       Bind(IntBits(t3) \o LimbBits(t2 % 16384)
              \o LimbBits(t1 % 16384) \o LimbBits(t0 % 16384),
            LAMBDA all : StripZeros(all))))))

\* x * c for a double x and an int 0 < c < 2^15, correctly rounded
fmulv(x, c) ==
  Bind(MulBits(x.bits, c), LAMBDA p :
    IF Len(p) <= Precision THEN [bits |-> p, frac |-> x.frac]
    ELSE RoundEven(SubSeq(p, 1, Precision), x.frac - (Len(p) - Precision),
                   p[Precision + 1],
                   \E j \in (Precision + 2)..Len(p) : p[j] = 1))

fmul(x, c) == Bind(x, LAMBDA v : fmulv(v, c))

\* the integer part of a double below 2^30
IntPart(x) ==
  IF x.frac >= Len(x.bits) THEN 0
  ELSE BitsInt(SubSeq(x.bits, 1, Len(x.bits) - x.frac))

\* the bit of weight 1/2, and whether any bit of lower weight is set
HalfBit(x) ==
  IF x.frac > Len(x.bits) \/ x.frac = 0 THEN 0
  ELSE x.bits[Len(x.bits) - x.frac + 1]

BelowHalf(x) ==
  \E j \in 1..Len(x.bits) : j > Len(x.bits) - x.frac + 1 /\ x.bits[j] = 1

\* int(x): truncation toward zero
int(x) == Bind(x, LAMBDA v : IntPart(v))

\* truncation in place of rounding
round_down(x) == Bind(x, LAMBDA v : IntPart(v))

\* round(x) with no ndigits: to the nearest integer, ties to even
round(x) ==
  Bind(x, LAMBDA v :
    IF HalfBit(v) = 1 /\ (BelowHalf(v) \/ IntPart(v) % 2 = 1)
      THEN IntPart(v) + 1
      ELSE IntPart(v))

(* ----------------------------- requests ------------------------------ *)

\* the client connections
Conn == {"c1", "c2"}

\* atoms a client may put in a prompt or a message
PromptAtoms == {SP, "a"}

MessageAtoms == {SP, "hello", "world"}

\* the texts of at most n atoms over the set A
TextsUpTo(A, n) == UNION {[1..m -> A] : m \in 0..n}

\* llm_stream's default prompt
DefaultPrompt ==
  <<"Tell", SP, "me", SP, "about", SP, "FastAPI", SP, "streaming">>

Prompts == TextsUpTo(PromptAtoms, MaxPromptLen) \cup {DefaultPrompt}

TaskNames == {"build", "deploy"}

\* a JSON value of the body's user_id: a string or null
JsonNull == [null |-> TRUE]

JsonStr(t) == [str |-> t]

\* the JSON bodies of POST /stream/post that pass validation
Bodies ==
  {[message |-> m] : m \in TextsUpTo(MessageAtoms, MaxMessageLen)}
    \cup {[message |-> m, user_id |-> u] :
            m \in TextsUpTo(MessageAtoms, MaxMessageLen),
            u \in {JsonNull, JsonStr("u1")}}

NoRequest == [kind |-> "none"]

Requests ==
  {[kind |-> "stream"]}
    \cup {[kind |-> "llm", prompt |-> p] : p \in Prompts}
    \cup {[kind |-> "progress", task_name |-> t] : t \in TaskNames}
    \cup {[kind |-> "post", body |-> b] : b \in Bodies}

\* one request of each GET endpoint, the text generation with its default
\* prompt
GetRequests ==
  {[kind |-> "stream"],
   [kind |-> "llm", prompt |-> DefaultPrompt],
   [kind |-> "progress", task_name |-> "build"]}

\* one request of each endpoint
EndpointRequests ==
  GetRequests \cup {[kind |-> "post", body |-> [message |-> <<"hello", SP, "world">>]]}

\* a ChatMessage whose user_id has no default
ChatMessage_nodefault(body) ==
  [message |-> body.message,
   user_id |-> IF "user_id" \in DOMAIN body THEN body.user_id ELSE JsonNull]

\* ChatMessage: user_id defaults to "anonymous" when the body omits it
ChatMessage(body) ==
  [message |-> body.message,
   user_id |-> IF "user_id" \in DOMAIN body THEN body.user_id
                                            ELSE JsonStr("anonymous")]

\* an f-string's rendering of an Optional[str]
format(v) == IF "null" \in DOMAIN v THEN "None" ELSE v.str

(* ------------------------- program constants ------------------------- *)

\* stream_events stops after this many messages
DemoMessages == 10

\* simulate_progress_task's total_steps
total_steps == 20

ResponseHead ==
  <<
    "This", SP, "is", SP, "a", SP, "simulated", SP, "LLM", SP, "response",
    SP, "to", SP, "your", SP, "prompt:", SP, "\""
  >>

ResponseTail ==
  <<
    "\".", NL, NL, "This", SP, "streaming", SP, "response", SP,
    "demonstrates", SP, "how", SP, "you", SP, "can", SP, "implement", SP,
    "real-time", SP, "text", SP, "generation", SP, NL, "similar", SP, "to",
    SP, "ChatGPT", SP, "or", SP, "other", SP, "language", SP, "models.", SP,
    "Each", SP, "chunk", SP, "of", SP, "text", SP, "is", SP, "sent", SP,
    "as", SP, "it", SP, "becomes", SP, NL, "available,", SP, "providing", SP,
    "a", SP, "better", SP, "user", SP, "experience", SP, "than", SP,
    "waiting", SP, "for", SP, "the", SP, "complete", SP, "response.", NL, NL,
    "The", SP, "streaming", SP, "approach", SP, "is", SP, "particularly", SP,
    "useful", SP, "for:", NL, "1.", SP, "Long-form", SP, "content", SP,
    "generation", NL, "2.", SP, "Real-time", SP, "chat", SP, "applications",
    SP, SP, NL, "3.", SP, "Progressive", SP, "content", SP, "delivery", NL,
    "4.", SP, "Better", SP, "perceived", SP, "performance", NL, NL, "This",
    SP, "completes", SP, "the", SP, "simulated", SP, "streaming", SP,
    "response."
  >>

\* the response without the prompt
full_response_fixed(prompt) == ResponseHead \o ResponseTail

\* simulate_llm_streaming's full_response, the prompt interpolated
full_response(prompt) == ResponseHead \o prompt \o ResponseTail

\* the message alone
response_text_bare(message) == message

\* generate_response's response_text, the message interpolated
response_text(message) ==
  <<"Processing", SP, "your", SP, "message:", SP, "'">> \o message \o <<"'">>

(* ------------------------------- state ------------------------------- *)

VARIABLES
  active_connections,  \* StreamingService's only field
  request,             \* per connection: the request it sends, or NoRequest
  disconnected,        \* per connection: what request.is_disconnected() returns
  pc,                  \* per connection: where its generator is suspended
  counter,             \* stream_events' counter
  words,               \* the word list of simulate_llm_streaming / generate_response
  chunk_id,            \* simulate_llm_streaming's chunk_id
  i,                   \* the index of the current iteration over words
  step,                \* simulate_progress_task's step
  out,                 \* per connection: what its generator has yielded so far
  observed,            \* history: a disconnect check of the generator returned True
  outAtDisconnect      \* history: Len(out) when the client disconnected, else -1

vars ==
  <<active_connections, request, disconnected, pc, counter, words, chunk_id,
    i, step, out, observed, outAtDisconnect>>

locals == <<counter, words, chunk_id, i, step>>

\* StreamingService(): no connection is registered; every client is
\* connected and its generator not yet created
InitService ==
  /\ active_connections = {}
  /\ disconnected = [c \in Conn |-> FALSE]
  /\ pc = [c \in Conn |-> "idle"]
  /\ counter = [c \in Conn |-> 0]
  /\ words = [c \in Conn |-> <<>>]
  /\ chunk_id = [c \in Conn |-> 0]
  /\ i = [c \in Conn |-> 0]
  /\ step = [c \in Conn |-> 0]
  /\ out = [c \in Conn |-> <<>>]
  /\ observed = [c \in Conn |-> FALSE]
  /\ outAtDisconnect = [c \in Conn |-> -1]

\* one client sends one request, one of EndpointRequests
InitEndpoint ==
  /\ InitService
  /\ request \in [Conn -> EndpointRequests \cup {NoRequest}]
  /\ Cardinality({c \in Conn : request[c] # NoRequest}) = 1

\* two clients send the same GET request
InitTwice ==
  /\ InitService
  /\ \E r \in GetRequests : request = [c \in Conn |-> r]

\* two clients send GET requests, the second to the counter stream
InitPair ==
  /\ InitService
  /\ request \in [Conn -> GetRequests]
  /\ request["c2"].kind = "stream"

\* one client sends one request
Init ==
  /\ InitService
  /\ request \in [Conn -> Requests \cup {NoRequest}]
  /\ Cardinality({c \in Conn : request[c] # NoRequest}) = 1

Suspended(c) == pc[c] \in {"check", "sleep"}

Terminated(c) == pc[c] \in {"done", "handled", "raised", "cancelled"}

yield(c, e) == out' = [out EXCEPT ![c] = Append(@, e)]

(* --------------------------- stream_events --------------------------- *)

message_event(n) ==
  [event |-> "message", id |-> str(n),
   data |-> [id |-> str(n), event |-> "message",
             data |-> <<"Server message #">> \o str(n)]]

\* the completion event reusing the last message's id
complete_event_sameid(n) ==
  [event |-> "complete", id |-> str(n),
   data |-> [message |-> "Stream completed"]]

complete_event(n) ==
  [event |-> "complete", id |-> str(n + 1),
   data |-> [message |-> "Stream completed"]]

\* stopping one message late
demo_finished_late(n) == n > DemoMessages

\* "Stop after 10 messages"
\* a loop with no exit test
demo_finished_never(n) == FALSE

demo_finished(n) == n >= DemoMessages

\* the counter kept across invocations instead of starting at 0
basic_stream_resumes(c) ==
  /\ pc[c] = "idle" /\ request[c].kind = "stream"
  /\ counter' = [counter EXCEPT ![c] =
                   CHOOSE n \in {counter[d] : d \in Conn} :
                     \A d \in Conn : counter[d] <= n]
  /\ pc' = [pc EXCEPT ![c] = "check"]
  /\ UNCHANGED <<active_connections, request, disconnected, words, chunk_id,
                 i, step, out, observed, outAtDisconnect>>

\* GET /stream: the generator runs to its first disconnect check
basic_stream(c) ==
  /\ pc[c] = "idle" /\ request[c].kind = "stream"
  /\ counter' = [counter EXCEPT ![c] = 0]
  /\ pc' = [pc EXCEPT ![c] = "check"]
  /\ UNCHANGED <<active_connections, request, disconnected, words, chunk_id,
                 i, step, out, observed, outAtDisconnect>>

\* one counter shared by every instance
stream_events_check_shared(c) ==
  /\ pc[c] = "check" /\ request[c].kind = "stream"
  /\ IF disconnected[c]
       THEN /\ pc' = [pc EXCEPT ![c] = "done"]
            /\ observed' = [observed EXCEPT ![c] = TRUE]
            /\ UNCHANGED <<counter, out>>
       ELSE /\ counter' = [d \in Conn |-> counter[d] + 1]
            /\ yield(c, message_event(counter[c] + 1))
            /\ pc' = [pc EXCEPT ![c] = "sleep"]
            /\ UNCHANGED observed
  /\ UNCHANGED <<active_connections, request, disconnected, words, chunk_id,
                 i, step, outAtDisconnect>>

\* the disconnect check returns; a connected client gets the next message
stream_events_check(c) ==
  /\ pc[c] = "check" /\ request[c].kind = "stream"
  /\ IF disconnected[c]
       THEN /\ pc' = [pc EXCEPT ![c] = "done"]
            /\ observed' = [observed EXCEPT ![c] = TRUE]
            /\ UNCHANGED <<counter, out>>
       ELSE /\ counter' = [counter EXCEPT ![c] = @ + 1]
            /\ yield(c, message_event(counter[c] + 1))
            /\ pc' = [pc EXCEPT ![c] = "sleep"]
            /\ UNCHANGED observed
  /\ UNCHANGED <<active_connections, request, disconnected, words, chunk_id,
                 i, step, outAtDisconnect>>

\* the delay ends; after the last message the stream completes
stream_events_wake(c) ==
  /\ pc[c] = "sleep" /\ request[c].kind = "stream"
  /\ IF demo_finished(counter[c])
       THEN /\ yield(c, complete_event(counter[c]))
            /\ pc' = [pc EXCEPT ![c] = "done"]
       ELSE /\ pc' = [pc EXCEPT ![c] = "check"]
            /\ UNCHANGED out
  /\ UNCHANGED <<active_connections, request, disconnected, locals, observed,
                 outAtDisconnect>>

(* ----------------------- simulate_llm_streaming ---------------------- *)

\* the final flag compared against the length instead of the last index
is_final_word_len(k, n) == k = n

is_final_word(k, n) == k = n - 1

llm_chunk_event(k, n, word, id) ==
  [event |-> "llm_chunk", id |-> str(id),
   data |-> [content |-> Append(word, SP), chunk_id |-> id,
             is_final |-> is_final_word(k, n),
             metadata |-> [progress |-> round(fmul(truediv(k + 1, n), 100))]]]

llm_complete_event(id) ==
  [event |-> "llm_complete", id |-> str(id + 1),
   data |-> [message |-> "LLM response completed"]]

\* GET /stream/llm: the generator runs to its first disconnect check (or,
\* with no word to iterate over, to the completion event)
llm_stream(c) ==
  /\ pc[c] = "idle" /\ request[c].kind = "llm"
  /\ words' = [words EXCEPT ![c] = split(full_response(request[c].prompt))]
  /\ chunk_id' = [chunk_id EXCEPT ![c] = 0]
  /\ i' = [i EXCEPT ![c] = 0]
  /\ IF words'[c] # <<>>
       THEN pc' = [pc EXCEPT ![c] = "check"] /\ UNCHANGED out
       ELSE pc' = [pc EXCEPT ![c] = "done"] /\ yield(c, llm_complete_event(0))
  /\ UNCHANGED <<active_connections, request, disconnected, counter, step,
                 observed, outAtDisconnect>>

\* the disconnect check returns: break falls through to the completion
\* event; a connected client gets the next word
simulate_llm_streaming_check(c) ==
  /\ pc[c] = "check" /\ request[c].kind = "llm"
  /\ IF disconnected[c]
       THEN /\ yield(c, llm_complete_event(chunk_id[c]))
            /\ pc' = [pc EXCEPT ![c] = "done"]
            /\ observed' = [observed EXCEPT ![c] = TRUE]
            /\ UNCHANGED chunk_id
       ELSE /\ chunk_id' = [chunk_id EXCEPT ![c] = @ + 1]
            /\ yield(c, llm_chunk_event(i[c], Len(words[c]),
                                        words[c][i[c] + 1], chunk_id[c] + 1))
            /\ pc' = [pc EXCEPT ![c] = "sleep"]
            /\ UNCHANGED observed
  /\ UNCHANGED <<active_connections, request, disconnected, counter, words,
                 i, step, outAtDisconnect>>

\* the delay ends: the next word, or the completion event after the last
simulate_llm_streaming_wake(c) ==
  /\ pc[c] = "sleep" /\ request[c].kind = "llm"
  /\ IF i[c] + 1 < Len(words[c])
       THEN /\ i' = [i EXCEPT ![c] = @ + 1]
            /\ pc' = [pc EXCEPT ![c] = "check"]
            /\ UNCHANGED out
       ELSE /\ yield(c, llm_complete_event(chunk_id[c]))
            /\ pc' = [pc EXCEPT ![c] = "done"]
            /\ UNCHANGED i
  /\ UNCHANGED <<active_connections, request, disconnected, counter, words,
                 chunk_id, step, observed, outAtDisconnect>>

(* ----------------------- simulate_progress_task ---------------------- *)

progress_status(s, total) == IF s < total THEN "in_progress" ELSE "completed"

\* truncating before scaling
progress_percent_early(s, total) == int(truediv(s, total)) * 100

\* int((step / total_steps) * 100)
progress_percent(s, total) == int(fmul(truediv(s, total), 100))

progress_event(task_name, s, total) ==
  [event |-> "progress", id |-> str(s),
   data |-> [progress |-> progress_percent(s, total),
             status |-> progress_status(s, total),
             message |-> [task_name |-> task_name, step |-> s,
                          total_steps |-> total]]]

\* GET /stream/progress/{task_name}
progress_stream(c) ==
  /\ pc[c] = "idle" /\ request[c].kind = "progress"
  /\ step' = [step EXCEPT ![c] = 0]
  /\ pc' = [pc EXCEPT ![c] = "check"]
  /\ UNCHANGED <<active_connections, request, disconnected, counter, words,
                 chunk_id, i, out, observed, outAtDisconnect>>

simulate_progress_task_check(c) ==
  /\ pc[c] = "check" /\ request[c].kind = "progress"
  /\ IF disconnected[c]
       THEN /\ pc' = [pc EXCEPT ![c] = "done"]
            /\ observed' = [observed EXCEPT ![c] = TRUE]
            /\ UNCHANGED out
       ELSE /\ yield(c, progress_event(request[c].task_name, step[c],
                                       total_steps))
            /\ pc' = [pc EXCEPT ![c] = "sleep"]
            /\ UNCHANGED observed
  /\ UNCHANGED <<active_connections, request, disconnected, locals,
                 outAtDisconnect>>

\* the delay ends: the next step of range(total_steps + 1), or the end
simulate_progress_task_wake(c) ==
  /\ pc[c] = "sleep" /\ request[c].kind = "progress"
  /\ IF step[c] < total_steps
       THEN /\ step' = [step EXCEPT ![c] = @ + 1]
            /\ pc' = [pc EXCEPT ![c] = "check"]
       ELSE /\ pc' = [pc EXCEPT ![c] = "done"]
            /\ UNCHANGED step
  /\ UNCHANGED <<active_connections, request, disconnected, counter, words,
                 chunk_id, i, out, observed, outAtDisconnect>>

(* ------------------- post_stream.generate_response ------------------- *)

chunk_payload(word, k, message) ==
  [chunk |-> Append(word, SP), index |-> k, user_id |-> format(message.user_id)]

final_chunk == [complete |-> TRUE, message |-> "Processing completed"]

error_chunk == [error |-> "Processing failed"]

\* POST /stream/post: the generator runs to its first disconnect check (or,
\* with no word to iterate over, to the completion marker)
post_stream(c) ==
  /\ pc[c] = "idle" /\ request[c].kind = "post"
  /\ words' = [words EXCEPT ![c] =
                 split(response_text(ChatMessage(request[c].body).message))]
  /\ i' = [i EXCEPT ![c] = 0]
  /\ IF words'[c] # <<>>
       THEN pc' = [pc EXCEPT ![c] = "check"] /\ UNCHANGED out
       ELSE pc' = [pc EXCEPT ![c] = "done"] /\ yield(c, final_chunk)
  /\ UNCHANGED <<active_connections, request, disconnected, counter, chunk_id,
                 step, observed, outAtDisconnect>>

\* the disconnect check returns: break falls through to the completion
\* marker; a connected client gets the next word
generate_response_check(c) ==
  /\ pc[c] = "check" /\ request[c].kind = "post"
  /\ IF disconnected[c]
       THEN /\ yield(c, final_chunk)
            /\ pc' = [pc EXCEPT ![c] = "done"]
            /\ observed' = [observed EXCEPT ![c] = TRUE]
       ELSE /\ yield(c, chunk_payload(words[c][i[c] + 1], i[c],
                                      ChatMessage(request[c].body)))
            /\ pc' = [pc EXCEPT ![c] = "sleep"]
            /\ UNCHANGED observed
  /\ UNCHANGED <<active_connections, request, disconnected, locals,
                 outAtDisconnect>>

generate_response_wake(c) ==
  /\ pc[c] = "sleep" /\ request[c].kind = "post"
  /\ IF i[c] + 1 < Len(words[c])
       THEN /\ i' = [i EXCEPT ![c] = @ + 1]
            /\ pc' = [pc EXCEPT ![c] = "check"]
            /\ UNCHANGED out
       ELSE /\ yield(c, final_chunk)
            /\ pc' = [pc EXCEPT ![c] = "done"]
            /\ UNCHANGED i
  /\ UNCHANGED <<active_connections, request, disconnected, counter, words,
                 chunk_id, step, observed, outAtDisconnect>>

(* ---------------------------- environment ---------------------------- *)

\* the client of a running stream goes away; is_disconnected() stays True
Disconnect(c) ==
  /\ Suspended(c) /\ ~disconnected[c]
  /\ disconnected' = [disconnected EXCEPT ![c] = TRUE]
  /\ outAtDisconnect' = [outAtDisconnect EXCEPT ![c] = Len(out[c])]
  /\ UNCHANGED <<active_connections, request, pc, locals, out, observed>>

\* the server cancels the task of a disconnected client: CancelledError is
\* raised at the await the generator is suspended in.  The three SSE
\* generators catch it and return; generate_response's `except Exception`
\* does not catch it
Cancel(c) ==
  /\ Suspended(c) /\ disconnected[c]
  /\ pc' = [pc EXCEPT ![c] =
              IF request[c].kind = "post" THEN "cancelled" ELSE "done"]
  /\ UNCHANGED <<active_connections, request, disconnected, locals, out,
                 observed, outAtDisconnect>>

\* no generator catches the Exception
Fail_uncaught(c) ==
  /\ Suspended(c)
  /\ pc' = [pc EXCEPT ![c] = "raised"]
  /\ UNCHANGED <<active_connections, request, disconnected, locals, out,
                 observed, outAtDisconnect>>

\* an await raises an Exception: generate_response yields one error
\* payload and returns; the SSE generators let it propagate
Fail(c) ==
  /\ Suspended(c)
  /\ IF request[c].kind = "post"
       THEN /\ yield(c, error_chunk)
            /\ pc' = [pc EXCEPT ![c] = "handled"]
       ELSE /\ pc' = [pc EXCEPT ![c] = "raised"]
            /\ UNCHANGED out
  /\ UNCHANGED <<active_connections, request, disconnected, locals, observed,
                 outAtDisconnect>>

Next ==
  \E c \in Conn :
    \/ basic_stream(c)
    \/ stream_events_check(c)
    \/ stream_events_wake(c)
    \/ llm_stream(c)
    \/ simulate_llm_streaming_check(c)
    \/ simulate_llm_streaming_wake(c)
    \/ progress_stream(c)
    \/ simulate_progress_task_check(c)
    \/ simulate_progress_task_wake(c)
    \/ post_stream(c)
    \/ generate_response_check(c)
    \/ generate_response_wake(c)
    \/ Disconnect(c)
    \/ Cancel(c)
    \/ Fail(c)

Spec == Init /\ [][Next]_vars

\* the steps of connection c's GET endpoint and generator: the endpoint
\* call and the returns of the generator's awaits
get_step(c) ==
  \/ basic_stream(c)
  \/ stream_events_check(c)
  \/ stream_events_wake(c)
  \/ llm_stream(c)
  \/ simulate_llm_streaming_check(c)
  \/ simulate_llm_streaming_wake(c)
  \/ progress_stream(c)
  \/ simulate_progress_task_check(c)
  \/ simulate_progress_task_wake(c)

\* the steps of POST /stream/post and generate_response
post_step(c) ==
  \/ post_stream(c)
  \/ generate_response_check(c)
  \/ generate_response_wake(c)

\* every request is served, and every disconnect check and every delay
\* that a generator awaits eventually returns
SpecFair ==
  /\ InitEndpoint
  /\ [][Next]_vars
  /\ \A c \in Conn : WF_vars(get_step(c) \/ post_step(c))

\* the same GET request served twice by the one streaming_service, the
\* clients staying connected: the second call comes when the first
\* stream has ended
NextTwice ==
  \/ get_step("c1")
  \/ Terminated("c1") /\ get_step("c2")

SpecTwice == InitTwice /\ [][NextTwice]_vars

\* two GET streams of the one streaming_service interleaved at their
\* awaits, either client free to go away
NextPair ==
  \E c \in Conn :
    \/ get_step(c)
    \/ Disconnect(c)
    \/ Cancel(c)

SpecPair == InitPair /\ [][NextPair]_vars

(* ----------------------------- properties ---------------------------- *)

Streams(kind) == {c \in Conn : request[c].kind = kind}

\* the generator returned and its client never went away
Completed(c) == pc[c] = "done" /\ ~disconnected[c]

\* the maximal runs of whitespace in a text
WhitespaceRuns(t) ==
  Cardinality({k \in 1..Len(t) :
                 t[k] \in Whitespace /\ (k = Len(t) \/ t[k + 1] \notin Whitespace)})

Events(c, name) == {k \in 1..Len(out[c]) : out[c][k].event = name}

Chunks(c) == {k \in 1..Len(out[c]) : "chunk" \in DOMAIN out[c][k]}

DecimalIds ==
  <<<<"1">>, <<"2">>, <<"3">>, <<"4">>, <<"5">>, <<"6">>, <<"7">>, <<"8">>,
    <<"9">>, <<"1", "0">>>>

HelloWorld == <<"hello", SP, "world">>

\* C1: the counter stream emits "message" events with ids "1".."10" in
\* order and nothing else before the 10th; with the client connected
\* throughout it ends having emitted exactly those 10 and then one
\* "complete", after which the generator has returned.
C1_CounterSequence ==
  \A c \in Streams("stream") :
    /\ Len(out[c]) <= 11
    /\ \A k \in 1..Len(out[c]) :
         IF k <= 10
           THEN out[c][k].event = "message" /\ out[c][k].id = DecimalIds[k]
           ELSE out[c][k].event = "complete"
    /\ Len(out[c]) = 11 => pc[c] = "done"
    /\ Completed(c) => Len(out[c]) = 11

C1_Witness ==
  \E c \in Streams("stream") :
    Completed(c) /\ Len(out[c]) = 11 /\ out[c][11].event = "complete"

\* C2: a text-generation stream whose client stays connected emits one
\* "llm_chunk" per word of the response, in order, with chunk_id 1..N,
\* is_final true on the N-th chunk only, and then one "llm_complete" as
\* its last event.
C2_LlmSequence ==
  \A c \in Streams("llm") :
    Completed(c) =>
      /\ Len(words[c]) >= 1
      /\ Len(out[c]) = Len(words[c]) + 1
      /\ \A k \in 1..Len(words[c]) :
           /\ out[c][k].event = "llm_chunk"
           /\ out[c][k].data.content = words[c][k] \o <<SP>>
           /\ out[c][k].data.chunk_id = k
           /\ out[c][k].data.is_final = (k = Len(words[c]))
      /\ out[c][Len(words[c]) + 1].event = "llm_complete"

C2_Witness ==
  \E c \in Streams("llm") :
    /\ Completed(c)
    /\ request[c].prompt = DefaultPrompt
    /\ Cardinality(Events(c, "llm_chunk")) = 82
    /\ Cardinality(Events(c, "llm_complete")) = 1

\* C3: the progress stream emits only "progress" events, the k-th for
\* step k-1 with progress floor(step*100/20) and status "in_progress"
\* before step 20 and "completed" on it; progress never decreases; with
\* the client connected throughout it ends after exactly 21 events.
C3_ProgressSequence ==
  \A c \in Streams("progress") :
    /\ Len(out[c]) <= 21
    /\ \A k \in 1..Len(out[c]) :
         /\ out[c][k].event = "progress"
         /\ out[c][k].data.message.step = k - 1
         /\ out[c][k].data.progress = ((k - 1) * 100) \div 20
         /\ out[c][k].data.status =
              IF k - 1 = 20 THEN "completed" ELSE "in_progress"
         /\ k > 1 => out[c][k - 1].data.progress <= out[c][k].data.progress
    /\ Completed(c) => Len(out[c]) = 21

C3_Witness ==
  \E c \in Streams("progress") :
    /\ Completed(c)
    /\ Len(out[c]) = 21
    /\ out[c][12].data.progress = 55
    /\ out[c][21].data.progress = 100
    /\ out[c][21].data.status = "completed"

\* the user_id a chunk payload shows for a request body
EchoedUser(body) ==
  IF "user_id" \notin DOMAIN body THEN "anonymous"
  ELSE IF body.user_id = JsonNull THEN "None" ELSE body.user_id.str

\* C4: a POST echo stream that neither fails nor loses its client emits
\* one chunk payload per word of the acknowledgement string, in order,
\* with index 0..W-1 and the request's user_id ("anonymous" when the
\* body omits it), and then one completion payload as its last output.
C4_PostSequence ==
  \A c \in Streams("post") :
    Completed(c) =>
      /\ Len(words[c]) >= 1
      /\ Len(out[c]) = Len(words[c]) + 1
      /\ \A k \in 1..Len(words[c]) :
           /\ DOMAIN out[c][k] = {"chunk", "index", "user_id"}
           /\ out[c][k].chunk = words[c][k] \o <<SP>>
           /\ out[c][k].index = k - 1
           /\ out[c][k].user_id = EchoedUser(request[c].body)
      /\ DOMAIN out[c][Len(out[c])] = {"complete", "message"}
      /\ out[c][Len(out[c])].complete

C4_Witness ==
  \E c \in Streams("post") :
    /\ Completed(c)
    /\ "user_id" \notin DOMAIN request[c].body
    /\ request[c].body.message = HelloWorld
    /\ out[c][1].user_id = "anonymous"
    /\ out[c][Len(out[c])].complete

\* C5 as stated: "hello world" yields the chunk indices 0 and 1 and then
\* the completion payload; an empty message yields the completion payload
\* alone; the number of chunk payloads is the message's word count.
C5_Original ==
  \A c \in Streams("post") :
    Completed(c) =>
      /\ request[c].body.message = HelloWorld =>
           Len(out[c]) = 3 /\ out[c][1].index = 0 /\ out[c][2].index = 1
      /\ request[c].body.message = <<>> => Len(out[c]) = 1
      /\ Cardinality(Chunks(c)) = Len(split(request[c].body.message))

\* C5, amended: the chunk payloads are the words of the acknowledgement
\* string: "hello world" yields indices 0..4 (Processing, your, message:,
\* 'hello, world') and then the completion payload; an empty message yields
\* indices 0..3 (the fourth chunk is '') and then the completion payload;
\* in general 4 chunk payloads plus one per whitespace run of the message.
C5_AcknowledgementWords ==
  \A c \in Streams("post") :
    Completed(c) =>
      /\ Cardinality(Chunks(c)) = 4 + WhitespaceRuns(request[c].body.message)
      /\ Chunks(c) = 1..(Len(out[c]) - 1)
      /\ out[c][Len(out[c])].complete
      /\ request[c].body.message = HelloWorld =>
           [k \in 1..5 |-> <<out[c][k].index, out[c][k].chunk>>] =
             << <<0, <<"Processing", SP>>>>, <<1, <<"your", SP>>>>,
                <<2, <<"message:", SP>>>>, <<3, <<"'", "hello", SP>>>>,
                <<4, <<"world", "'", SP>>>> >>
      /\ request[c].body.message = <<>> =>
           /\ Len(out[c]) = 5
           /\ out[c][4].index = 3 /\ out[c][4].chunk = <<"'", "'", SP>>

C5_Witness ==
  \E c \in Streams("post") :
    /\ Completed(c)
    /\ request[c].body.message = HelloWorld
    /\ Cardinality(Chunks(c)) = 5
    /\ out[c][6].complete

\* C6 as stated: once a disconnect check of the text-generation stream
\* has found the client gone, the stream has emitted no "llm_complete".
C6_NoCompleteAfterDisconnect ==
  \A c \in Streams("llm") : observed[c] => Events(c, "llm_complete") = {}

\* C7 as stated: once a disconnect check of the POST echo stream has found
\* the client gone, nothing more is emitted: no chunk, completion or
\* error payload follows what the client had been sent.
C7_PostStopsOnDisconnect ==
  \A c \in Streams("post") :
    observed[c] => Len(out[c]) = outAtDisconnect[c] /\ Chunks(c) = 1..Len(out[c])

\* C8 as stated: the counter stream emits no event, "complete" included,
\* once its client has disconnected.
C8_NoEventAfterDisconnect ==
  \A c \in Streams("stream") :
    disconnected[c] => Len(out[c]) = outAtDisconnect[c]

\* the iterations a generator's loop has begun
Iterations(c) ==
  CASE request[c].kind = "stream" -> counter[c] + 1
    [] request[c].kind = "progress" -> step[c] + 1
    [] OTHER -> i[c] + 1

\* C9 as stated: on each of the four streams, when the disconnect check of
\* iteration k finds the client gone, the stream is terminal and its whole
\* output is the k-1 events of the earlier iterations.
C9_DisconnectAtIteration ==
  \A c \in Conn :
    observed[c] => Terminated(c) /\ Len(out[c]) = Iterations(c) - 1

\* C10 as stated: every prompt yields the same number of "llm_chunk"
\* events and the same final chunk_id as the empty prompt does (78).
C10_Original ==
  \A c \in Streams("llm") :
    Completed(c) =>
      /\ Cardinality(Events(c, "llm_chunk")) = 78
      /\ out[c][Len(out[c]) - 1].data.chunk_id = 78

\* C10, amended: the prompt changes the length of the stream only by its
\* whitespace: an undisconnected run emits 78 "llm_chunk" events plus one
\* per whitespace run of the prompt, and its final chunk_id is that
\* number; so two prompts with equally many whitespace runs yield streams
\* of the same length.
C10_LengthByWhitespaceRuns ==
  \A c \in Streams("llm") :
    Completed(c) =>
      /\ Cardinality(Events(c, "llm_chunk")) =
           78 + WhitespaceRuns(request[c].prompt)
      /\ out[c][Len(out[c]) - 1].data.chunk_id =
           78 + WhitespaceRuns(request[c].prompt)

C10_Witness ==
  \E c \in Streams("llm") :
    /\ Completed(c)
    /\ request[c].prompt = <<"a", SP>>
    /\ Cardinality(Events(c, "llm_chunk")) = 79
    /\ out[c][79].data.chunk_id = 79

\* the error payloads among a POST echo stream's outputs
Errors(c) == {k \in 1..Len(out[c]) : "error" \in DOMAIN out[c][k]}

Completions(c) == {k \in 1..Len(out[c]) : "complete" \in DOMAIN out[c][k]}

\* C11: an Exception raised inside generate_response never propagates: the
\* generator returns from its handler, having emitted the chunks it had
\* already emitted, then exactly one error payload as its last output, and
\* no completion payload; and an error payload appears in no other run.
C11_PostErrorPayload ==
  \A c \in Streams("post") :
    /\ pc[c] # "raised"
    /\ pc[c] = "handled" => Errors(c) # {}
    /\ Errors(c) # {} =>
         /\ pc[c] = "handled"
         /\ Errors(c) = {Len(out[c])}
         /\ Completions(c) = {}
         /\ Chunks(c) = 1..(Len(out[c]) - 1)
         /\ \A k \in Chunks(c) : out[c][k].index = k - 1

C11_Witness ==
  \E c \in Streams("post") :
    /\ pc[c] = "handled"
    /\ Len(out[c]) = 3
    /\ Chunks(c) = {1, 2}
    /\ out[c][3].error = "Processing failed"

\* the number a decimal id of at most three digits denotes
DigitValue(d) ==
  CASE d = "0" -> 0 [] d = "1" -> 1 [] d = "2" -> 2 [] d = "3" -> 3
    [] d = "4" -> 4 [] d = "5" -> 5 [] d = "6" -> 6 [] d = "7" -> 7
    [] d = "8" -> 8 [] d = "9" -> 9

IdValue(id) ==
  CASE Len(id) = 1 -> DigitValue(id[1])
    [] Len(id) = 2 -> 10 * DigitValue(id[1]) + DigitValue(id[2])
    [] Len(id) = 3 -> 100 * DigitValue(id[1]) + 10 * DigitValue(id[2])
                        + DigitValue(id[3])

\* the id of the first event of an SSE stream
FirstId(kind) == IF kind = "progress" THEN 0 ELSE 1

\* C15: on the three SSE streams the k-th event emitted carries the id
\* FirstId + k - 1, written in decimal without leading zeros: the ids are
\* consecutive, never repeated or skipped, a "complete" / "llm_complete"
\* event carries the id after the last preceding event's, and the counter
\* stream's "complete" carries "11".
C15_ConsecutiveIds ==
  \A c \in Streams("stream") \cup Streams("llm") \cup Streams("progress") :
    \A k \in 1..Len(out[c]) :
      /\ Len(out[c][k].id) \in 1..3
      /\ IdValue(out[c][k].id) = FirstId(request[c].kind) + k - 1
      /\ Len(out[c][k].id) > 1 => out[c][k].id[1] # "0"
      /\ out[c][k].event = "complete" => out[c][k].id = <<"1", "1">>

C15_Witness ==
  \E c \in Streams("llm") :
    /\ observed[c]
    /\ Len(out[c]) = 3
    /\ out[c][2].event = "llm_chunk" /\ out[c][2].id = <<"2">>
    /\ out[c][3].event = "llm_complete" /\ out[c][3].id = <<"3">>

\* C16: every "llm_chunk" of a response of N words carries, for its
\* chunk_id c, a progress that is an integer of 0..100 nearest to 100*c/N
\* (as round(c/N*100) is), never below the previous chunk's, and 100 on
\* the chunk whose is_final is true.
C16_ChunkProgress ==
  \A c \in Streams("llm") :
    \A k \in Events(c, "llm_chunk") :
      LET p == out[c][k].data.metadata.progress
          id == out[c][k].data.chunk_id
          N == Len(words[c])
      IN  /\ p \in 0..100
          /\ 2 * (p * N - 100 * id) <= N
          /\ 2 * (100 * id - p * N) <= N
          /\ k > 1 => out[c][k - 1].data.metadata.progress <= p
          /\ out[c][k].data.is_final => p = 100

C16_Witness ==
  \E c \in Streams("llm") :
    /\ Completed(c)
    /\ Len(words[c]) = 80
    /\ out[c][46].data.metadata.progress = 57
    /\ out[c][6].data.metadata.progress = 8
    /\ out[c][80].data.is_final
    /\ out[c][80].data.metadata.progress = 100

\* the most events a stream instance emits
MaxEvents(c) ==
  CASE request[c].kind = "stream" -> 11
    [] request[c].kind = "llm" -> Len(words[c]) + 1
    [] request[c].kind = "progress" -> 21
    [] request[c].kind = "post" -> Len(words[c]) + 1
    [] OTHER -> 0

C14_Bounded ==
  \A c \in Conn :
    /\ Len(out[c]) <= MaxEvents(c)
    /\ counter[c] <= 10

\* C14: every stream instance emits at most 11, N+1, 21 and W+1 events
\* (counter, text-generation, progress, POST echo), the counter stream's
\* counter never passes 10, and, the awaits returning, every instance
\* eventually reaches a terminal state, disconnected or not.
C14_Termination ==
  /\ []C14_Bounded
  /\ \A c \in Conn : <>(request[c] = NoRequest \/ Terminated(c))

C14_Witness ==
  \E c \in Streams("stream") :
    /\ Terminated(c)
    /\ counter[c] = 10
    /\ Len(out[c]) = MaxEvents(c)

\* C12: the same GET request served a second time, after the first
\* stream ran to its end with its client connected, yields event for event
\* what the first did: at every moment the second stream's events are the
\* first ones of the first stream's, and once it has ended they are the
\* same sequence (names, ids and payloads; wall-clock values are left out
\* of the events).
C12_SameStreamTwice ==
  /\ request["c1"] = request["c2"]
  /\ Len(out["c2"]) <= Len(out["c1"])
  /\ out["c2"] = SubSeq(out["c1"], 1, Len(out["c2"]))
  /\ Completed("c2") => out["c2"] = out["c1"]
  /\ Terminated("c2") => Completed("c2")

C12_Witness ==
  /\ request["c1"].kind = "llm"
  /\ Completed("c1") /\ Completed("c2")
  /\ Len(out["c2"]) = 83
  /\ out["c2"] = out["c1"]

\* the number of events of a GET stream that runs to its end
FullLength(c) ==
  CASE request[c].kind = "stream" -> 11
    [] request[c].kind = "llm" -> Len(words[c]) + 1
    [] request[c].kind = "progress" -> 21

\* the name of the k-th event of a GET stream that runs to its end
EventName(c, k) ==
  CASE request[c].kind = "stream" -> IF k <= 10 THEN "message" ELSE "complete"
    [] request[c].kind = "llm" ->
         IF k <= Len(words[c]) THEN "llm_chunk" ELSE "llm_complete"
    [] request[c].kind = "progress" -> "progress"

\* the counter the k-th event carries in its data
EventCounter(c, k) ==
  CASE out[c][k].event = "message" -> IdValue(out[c][k].data.id)
    [] out[c][k].event = "llm_chunk" -> out[c][k].data.chunk_id
    [] out[c][k].event = "progress" -> out[c][k].data.message.step + 1
    [] OTHER -> k

\* C13: with two GET streams of the one service interleaved at their
\* awaits in every order, each instance emits the events it emits alone:
\* the k-th has the name, id and counter of the k-th event of a solo run
\* (after a disconnect the text-generation stream closes with its
\* "llm_complete", as it does alone), an instance whose own client stays
\* connected runs to its full length whatever the other client does, one
\* that ends short has lost its own client, and active_connections stays
\* empty.
C13_Isolation ==
  /\ active_connections = {}
  /\ \A c \in Conn :
       /\ Len(out[c]) <= FullLength(c)
       /\ \A k \in 1..Len(out[c]) :
            /\ \/ out[c][k].event = EventName(c, k)
               \/ /\ out[c][k].event = "llm_complete"
                  /\ k = Len(out[c]) /\ observed[c]
            /\ IdValue(out[c][k].id) = FirstId(request[c].kind) + k - 1
            /\ EventCounter(c, k) = k
       /\ Completed(c) => Len(out[c]) = FullLength(c)
       /\ pc[c] = "done" /\ Len(out[c]) < FullLength(c) => disconnected[c]

C13_Witness ==
  /\ request["c1"].kind = "llm"
  /\ observed["c2"] /\ pc["c2"] = "done" /\ Len(out["c2"]) = 3
  /\ Completed("c1") /\ Len(out["c1"]) = 83

====
